---- MODULE Spec2Model ----
(***************************************************************************)
(* Model of the snowdrop `scaffold` command (cmd/scaffold.go) and of its   *)
(* prompt helpers.  One run of the command is a linear sequence of         *)
(* blocking steps: fetch the generator configuration, ask the user a       *)
(* series of questions, build and issue the archive request, write the     *)
(* zip, extract it and delete it.  Each blocking step is one action; what  *)
(* the terminal, the network and the file system answer is chosen by the   *)
(* environment.                                                            *)
(***************************************************************************)
EXTENDS Naturals, Integers, Sequences, FiniteSets, TLC

\* ------------------------------------------------------------------ bounds

\* How many tolerated (non-interrupt) prompt failures the terminal may
\* produce in one run.
MaxPromptErrors == 2
\* How many command-line flags are supplied at once (besides the run with
\* every flag supplied).
MaxFlags == 1
\* Longest archive, in entries, of the extraction specification.
MaxEntries == 2
\* How many prompts a client of the ui package shows.
MaxCalls == 2

\* --------------------------------------------------------------- utilities

Range(s) == {s[i] : i \in DOMAIN s}

\* Every listing of the finite set S without repetition.
Orderings(S) ==
  {s \in [1..Cardinality(S) -> S] : \A i, j \in 1..Cardinality(S) : i # j => s[i] # s[j]}

\* Byte-wise lexicographic order of the strings that occur in a run (Go
\* compares strings byte by byte; TLC cannot, so the order is tabulated).
StrOrder ==
  <<"2.1", "2.2", "a", "artifactid", "b", "c", "data-jpa", "groupid", "module",
    "outdir", "packagename", "rest", "simple", "snowdropbom",
    "springbootversion", "template", "version", "web">>

StrRank(s) == CHOOSE i \in DOMAIN StrOrder : StrOrder[i] = s

StrLess(a, b) == StrRank(a) < StrRank(b)

\* --------------------------------------------------------- program constants

ServiceEndpoint == "http://spring-boot-generator.195.201.87.126.nip.io"

UnavailableMarker == "Application is not available"

UserAgent == "snowdrop-scaffold/1.0"

\* terminal.InterruptErr, any other error of a prompt, and Go's nil.
InterruptErr == "interrupt"
OtherErr == "other"
NilErr == "nil"

\* The exit code of a process that has not ended.
Running == 0 - 1

\* ------------------------------------------------------------ prompt layer

\* HandleError as it would be if every error ended the process.
HandleErrorExitsOnAnyError(err) ==
  IF err # NilErr
    THEN [exit |-> TRUE, out |-> <<>>]
    ELSE [exit |-> FALSE, out |-> <<>>]

\* HandleError as it would be without the test for terminal.InterruptErr.
HandleErrorIgnoresInterrupt(err) ==
  IF err # NilErr
    THEN [exit |-> FALSE, out |-> <<"Encountered an error processing prompt">>]
    ELSE [exit |-> FALSE, out |-> <<>>]

\* HandleError: an interrupt ends the process with status 1, any other error
\* is written to standard output and the caller goes on.
HandleError(err) ==
  IF err # NilErr
    THEN IF err = InterruptErr
           THEN [exit |-> TRUE, out |-> <<>>]
           ELSE [exit |-> FALSE, out |-> <<"Encountered an error processing prompt">>]
    ELSE [exit |-> FALSE, out |-> <<>>]

\* survey.AskOne writes the answer into the response only when it returns no
\* error; otherwise the response keeps the value it was declared with.
AskOneResponse(answer, zero) ==
  IF answer.err = NilErr THEN answer.value ELSE zero

\* Each prompt function: the prompt it presents, the response it returns, and
\* what HandleError did with the error of survey.AskOne.
Shown(kind, message, options, defaultValue) ==
  [kind |-> kind, message |-> message, options |-> options, default |-> defaultValue]

Proceed(message, answer) ==
  [shown |-> Shown("confirm", message, <<>>, ""),
   response |-> AskOneResponse(answer, FALSE), handled |-> HandleError(answer.err)]

askOne(prompt, answer) ==
  [shown |-> prompt,
   response |-> AskOneResponse(answer, ""), handled |-> HandleError(answer.err)]

Select(message, options, defaultValue, answer) ==
  askOne(Shown("select", message, options, defaultValue), answer)

MultiSelect(message, options, answer) ==
  [shown |-> Shown("multiselect", message, options, ""),
   response |-> AskOneResponse(answer, <<>>), handled |-> HandleError(answer.err)]

Ask(message, defaultValue, answer) ==
  askOne(Shown("input", message, <<>>, defaultValue), answer)

\* --------------------------------------------------- remote generator service

\* scaffold.Config as the command uses it: the BOM of each Spring Boot
\* version, the default version and the template names.
ZeroBom == [Snowdrop |-> "", Supported |-> <<>>]

ConfigFull ==
  [versions |-> [v \in {"2.1", "2.2"} |->
                   IF v = "2.1" THEN [Snowdrop |-> "x.y", Supported |-> <<"a.b">>]
                                ELSE [Snowdrop |-> "z.w", Supported |-> <<>>]],
   default |-> "2.1",
   templates |-> <<"simple", "rest">>]

ConfigEmpty == [versions |-> [v \in {} |-> ZeroBom], default |-> "", templates |-> <<>>]

\* c.GetBOMMap(): the map and the default version.
GetBOMMap(c) == [versions |-> c.versions, defaultVersion |-> c.default]

\* scaffold.GetSpringBootVersions(versions): the keys of the map, in an order
\* the Go map iteration decides.
GetSpringBootVersions(versions) == Orderings(DOMAIN versions)

\* versions[p.SpringBootVersion]: a missing key reads as the zero value.
BomOf(versions, version) ==
  IF version \in DOMAIN versions THEN versions[version] ELSE ZeroBom

\* c.GetSupportedVersionFor(version)
GetSupportedVersionFor(c, version) ==
  LET bom == BomOf(c.versions, version)
  IN IF Len(bom.Supported) > 0 THEN bom.Supported[1] ELSE bom.Snowdrop

GetTemplateNames(c) == c.templates

\* scaffold.GetModuleNamesFor(modules)
GetModuleNamesFor(modules) == [i \in DOMAIN modules |-> modules[i].name]

ModulesFull == <<[name |-> "web"], [name |-> "data-jpa"]>>

\* A response body: whether it contains the unavailability marker, whether it
\* parses as YAML into the requested type, and the parsed value.
BodyOf(value) == [marker |-> FALSE, parses |-> TRUE, value |-> value]
\* The marker inside a page that is no YAML, and inside a YAML document.
BodyUnavailable(zero) == [marker |-> TRUE, parses |-> FALSE, value |-> zero]
BodyUnavailableYaml(zero) == [marker |-> TRUE, parses |-> TRUE, value |-> zero]
BodyGarbage(zero) == [marker |-> FALSE, parses |-> FALSE, value |-> zero]

\* What the network answers to a GET: client.Do fails ("do"), the body read
\* fails part-way ("read", with the bytes read so far), or both succeed.
Responses(full, truncated) ==
  {[transport |-> "do", body |-> b] : b \in {BodyGarbage(truncated)}}
    \cup {[transport |-> "read", body |-> b] :
            b \in {BodyOf(truncated), BodyGarbage(truncated)}}
    \cup {[transport |-> "ok", body |-> b] :
            b \in {BodyOf(full), BodyOf(truncated), BodyUnavailable(truncated),
                   BodyUnavailableYaml(truncated), BodyGarbage(truncated)}}

ValidURL(url) == url # ":bad"

\* getYamlFrom as it would be without the test for the unavailability marker.
getYamlFromSkipsMarker(url, resp) ==
  IF ~ValidURL(url)
    THEN [ended |-> TRUE, code |-> 2, logged |-> <<"Error: parse url">>, result |-> resp.body.value]
  ELSE IF resp.transport = "do"
    THEN [ended |-> TRUE, code |-> 2, logged |-> <<"Error: transport">>, result |-> resp.body.value]
  ELSE LET readLog == IF resp.transport = "read" THEN <<"Error: read body">> ELSE <<>>
       IN IF ~resp.body.parses
            THEN [ended |-> TRUE, code |-> 1,
                  logged |-> readLog \o <<"Fatal: unmarshal">>, result |-> resp.body.value]
          ELSE [ended |-> FALSE, code |-> Running, logged |-> readLog,
                result |-> resp.body.value]

\* getYamlFrom: transport errors are only logged (and a missing request or
\* response then makes the next dereference panic, exit status 2); the
\* unavailability marker and a parse failure are fatal (log.Fatal, status 1).
getYamlFrom(url, resp) ==
  IF ~ValidURL(url)
    THEN [ended |-> TRUE, code |-> 2, logged |-> <<"Error: parse url">>, result |-> resp.body.value]
  ELSE IF resp.transport = "do"
    THEN [ended |-> TRUE, code |-> 2, logged |-> <<"Error: transport">>, result |-> resp.body.value]
  ELSE LET readLog == IF resp.transport = "read" THEN <<"Error: read body">> ELSE <<>>
       IN IF resp.body.marker
            THEN [ended |-> TRUE, code |-> 1,
                  logged |-> readLog \o <<"Fatal: Generator service is not available">>,
                  result |-> resp.body.value]
          ELSE IF ~resp.body.parses
            THEN [ended |-> TRUE, code |-> 1,
                  logged |-> readLog \o <<"Fatal: unmarshal">>, result |-> resp.body.value]
          ELSE [ended |-> FALSE, code |-> Running, logged |-> readLog,
                result |-> resp.body.value]

getGeneratorServiceConfig(url, resp) == getYamlFrom(url, resp)

getCompatibleModuleNameFor(url, resp) ==
  LET got == getYamlFrom(url, resp)
  IN [got EXCEPT !.result = GetModuleNamesFor(got.result)]

\* addClientHeader and the request line of every GET the command issues.
Request(url, endpoint, query) ==
  [method |-> "GET", base |-> url, endpoint |-> endpoint, query |-> query,
   userAgent |-> UserAgent]

\* ------------------------------------------------------- project descriptor

FlagNames ==
  {"Template", "Modules", "GroupId", "ArtifactId", "Version", "PackageName",
   "SpringBootVersion", "SnowdropBomVersion"}

\* The flag sets a run is started with.
FlagSets == {S \in SUBSET FlagNames : Cardinality(S) <= MaxFlags \/ S = FlagNames}

UrlServices == {ServiceEndpoint, ":bad"}

\* scaffold.Project after cobra has parsed the flags in S: a flag that is not
\* supplied leaves the default of its definition.
Flags(S, url) ==
  [Template |-> IF "Template" \in S THEN "rest" ELSE "",
   UrlService |-> url,
   Modules |-> IF "Modules" \in S THEN <<"web">> ELSE <<>>,
   GroupId |-> IF "GroupId" \in S THEN "com.example" ELSE "",
   ArtifactId |-> IF "ArtifactId" \in S THEN "demo" ELSE "",
   Version |-> IF "Version" \in S THEN "0.0.1-SNAPSHOT" ELSE "",
   PackageName |-> IF "PackageName" \in S THEN "com.example.demo" ELSE "",
   SpringBootVersion |-> IF "SpringBootVersion" \in S THEN "2.2" ELSE "",
   SnowdropBomVersion |-> IF "SnowdropBomVersion" \in S THEN "z.w" ELSE "",
   OutDir |-> ""]

\* ------------------------------------------------------------------- errors

\* A path as the text of its components.
RECURSIVE PathText(_)
PathText(path) == IF path = <<>> THEN "" ELSE "/" \o Head(path) \o PathText(Tail(path))

\* An underlying error (what failed, on which path or URL) and the error RunE
\* returns: the cause alone, or the cause wrapped by fmt.Errorf with a context
\* and a path.
Cause(op, path, msg) == [op |-> op, path |-> path, msg |-> msg]
NoCause == Cause("", "", "")
Bare(cause) == [context |-> "", path |-> "", cause |-> cause]
Errorf(context, path, cause) == [context |-> context, path |-> path, cause |-> cause]
NoError == Bare(NoCause)

\* ---------------------------------------------------------------- variables

VARIABLES
  pc,           \* the step the run is blocked at, or "exited"
  flags,        \* the descriptor as the flags left it
  p,            \* the project descriptor
  c,            \* the generator configuration
  modules,      \* the module names fetched for the chosen version
  prompts,      \* the prompts shown so far, in order
  lastErr,      \* the error survey.AskOne returned to the last prompt
  nPromptErrs,  \* how many prompts failed without an interrupt
  stdout,       \* what was written to standard output
  logged,       \* what logrus wrote
  requests,     \* the HTTP requests issued so far, in order
  responses,    \* what the generator answered to each getYamlFrom, in order
  body,         \* the body of the archive response
  fs,           \* the file system: path -> node
  umask,        \* the permission bits the process masks out
  served,       \* the bodies the generator may answer the archive request with
  failed,       \* the archive step that failed, "" when none did
  err,          \* the error RunE returned
  exitCode      \* the exit status, Running while the process runs

vars ==
  <<pc, flags, p, c, modules, prompts, lastErr, nPromptErrs, stdout, logged,
    requests, responses, body, fs, umask, served, failed, err, exitCode>>

\* -------------------------------------------------------------- file system

\* Permission bits as sets: 0644, 0664, os.ModePerm (0777), and the usual
\* umask 022.
Mode0644 == {"ur", "uw", "gr", "or"}
Mode0664 == {"ur", "uw", "gr", "gw", "or"}
ModePerm == {"ur", "uw", "ux", "gr", "gw", "gx", "or", "ow", "ox"}
Umask022 == {"gw", "ow"}
Umasks == {{}, Umask022}

\* File contents: plain bytes, or the bytes of a zip archive with its entries.
Bytes(text) == [zip |-> FALSE, entries |-> <<>>, text |-> text]
ZipBytes(entries) == [zip |-> TRUE, entries |-> entries, text |-> ""]

DirNode(mode) == [kind |-> "dir", content |-> Bytes(""), mode |-> mode]
FileNode(content, mode) == [kind |-> "file", content |-> content, mode |-> mode]

\* os.Getwd(), as path components below the root.
currentDir == <<"work">>

\* The file system the command starts in: the working directory exists.
FsFresh == (<<>> :> DirNode(ModePerm)) @@ (currentDir :> DirNode(ModePerm))

\* The same with a project generated earlier still in place.
FsOld ==
  FsFresh @@ (<<"work", "my project">> :> DirNode(ModePerm))
          @@ (<<"work", "my project", "f">> :> FileNode(Bytes("old"), {"ur", "uw"}))

\* The components of the one-segment path strings the user types.
PathOf(s) == IF s = "" THEN <<>> ELSE <<s>>

\* filepath.Clean of a joined path: "." is dropped, ".." removes the
\* component before it (and stays at the root).
RECURSIVE Clean(_, _)
Clean(done, rest) ==
  IF rest = <<>> THEN done
  ELSE IF Head(rest) = "." THEN Clean(done, Tail(rest))
  ELSE IF Head(rest) = ".."
    THEN Clean(IF done = <<>> THEN done ELSE SubSeq(done, 1, Len(done) - 1), Tail(rest))
  ELSE Clean(Append(done, Head(rest)), Tail(rest))

\* filepath.Join(base, rel)
Join(base, rel) == Clean(<<>>, base \o rel)

\* dir + ".zip"
ZipFileOf(dir) ==
  IF dir = <<>> THEN <<".zip">>
  ELSE SubSeq(dir, 1, Len(dir) - 1) \o <<dir[Len(dir)] \o ".zip">>

IsPrefix(a, b) == Len(a) <= Len(b) /\ SubSeq(b, 1, Len(a)) = a

\* os.MkdirAll(path, os.ModePerm): every missing directory of the path is
\* created; a component that exists as a file is an error.
RECURSIVE MkdirAllFrom(_, _, _, _)
MkdirAllFrom(files, path, mask, k) ==
  IF k > Len(path) THEN [fs |-> files, err |-> NoCause]
  ELSE LET prefix == SubSeq(path, 1, k)
       IN IF prefix \in DOMAIN files
            THEN IF files[prefix].kind = "dir"
                   THEN MkdirAllFrom(files, path, mask, k + 1)
                   ELSE [fs |-> files, err |-> Cause("mkdir", PathText(prefix), "not a directory")]
            ELSE MkdirAllFrom((prefix :> DirNode(ModePerm \ mask)) @@ files, path, mask, k + 1)

MkdirAll(files, path, mask) == MkdirAllFrom(files, path, mask, 1)

\* os.OpenFile(name, O_WRONLY|O_CREATE|O_TRUNC, mode): a new file gets the
\* mode less the umask; an existing file is truncated and keeps its mode.
OpenFile(files, name, mode, mask) ==
  IF name \in DOMAIN files
    THEN IF files[name].kind = "dir"
           THEN [fs |-> files, err |-> Cause("open", PathText(name), "is a directory")]
           ELSE [fs |-> [files EXCEPT ![name].content = Bytes("")], err |-> NoCause]
    ELSE [fs |-> (name :> FileNode(Bytes(""), mode \ mask)) @@ files, err |-> NoCause]

\* io.Copy(f, rc)
Copy(files, name, content) == [files EXCEPT ![name].content = content]

\* ioutil.WriteFile(name, data, 0644)
WriteFile(files, name, data, mask) ==
  LET parent == SubSeq(name, 1, Len(name) - 1)
      opened == OpenFile(files, name, Mode0644, mask)
  IN IF parent \notin DOMAIN files \/ files[parent].kind # "dir"
       THEN [fs |-> files, err |-> Cause("open", PathText(name), "no such file or directory")]
     ELSE IF opened.err # NoCause THEN opened
     ELSE [fs |-> Copy(opened.fs, name, data), err |-> NoCause]

\* os.Remove(name)
Remove(files, name) ==
  IF name \in DOMAIN files
    THEN [fs |-> [q \in DOMAIN files \ {name} |-> files[q]], err |-> NoCause]
    ELSE [fs |-> files, err |-> Cause("remove", PathText(name), "no such file or directory")]

\* Unzip(src, dest): the entries in archive order; the first error ends the
\* extraction.  failAt is the entry whose f.Open() the environment fails
\* (0: none).
UnzipEntry(files, f, dest, mask) ==
  LET name == Join(dest, f.Name)
  IN IF f.IsDir
       THEN MkdirAll(files, name, mask)
       ELSE IF Len(name) <= 1
              THEN [fs |-> files, err |-> Cause("mkdir", "", "no such file or directory")]
            ELSE LET made == MkdirAll(files, SubSeq(name, 1, Len(name) - 1), mask)
                     opened == OpenFile(made.fs, name, f.Mode, mask)
                 IN IF made.err # NoCause THEN made
                    ELSE IF opened.err # NoCause THEN opened
                    ELSE [fs |-> Copy(opened.fs, name, f.Content), err |-> NoCause]

RECURSIVE UnzipFrom(_, _, _, _, _, _)
UnzipFrom(files, entries, dest, mask, failAt, i) ==
  IF i > Len(entries) THEN [fs |-> files, err |-> NoCause, done |-> i - 1]
  ELSE IF i = failAt
    THEN [fs |-> files, err |-> Cause("open", PathText(entries[i].Name), "read error"), done |-> i - 1]
  ELSE LET step == UnzipEntry(files, entries[i], dest, mask)
       IN IF step.err # NoCause
            THEN [fs |-> step.fs, err |-> step.err, done |-> i - 1]
            ELSE UnzipFrom(step.fs, entries, dest, mask, failAt, i + 1)

Unzip(files, src, dest, mask, failAt) ==
  IF src \notin DOMAIN files \/ files[src].kind # "file" \/ ~files[src].content.zip
    THEN [fs |-> files, err |-> Cause("open", PathText(src), "zip: not a valid zip file"), done |-> 0]
    ELSE UnzipFrom(files, files[src].content.entries, dest, mask, failAt, 1)

\* ------------------------------------------------------------ request query

\* sort.Strings, as an insertion sort on the tabulated byte order.
RECURSIVE Insert(_, _)
Insert(sorted, x) ==
  IF sorted = <<>> THEN <<x>>
  ELSE IF StrLess(x, Head(sorted)) THEN <<x>> \o sorted
  ELSE <<Head(sorted)>> \o Insert(Tail(sorted), x)

RECURSIVE SortStrings(_)
SortStrings(list) ==
  IF list = <<>> THEN <<>> ELSE Insert(SortStrings(SubSeq(list, 1, Len(list) - 1)), list[Len(list)])

\* url.QueryEscape: letters, digits, '-', '_', '.' and '~' stay, a space
\* becomes '+'.  Of the values of a run only the project location has a byte
\* that is escaped.
QueryEscape(v) == IF v = "my project" THEN "my+project" ELSE v

\* form.Add(key, value): url.Values keeps, per key, the values in the order
\* they were added.
Add(form, key, value) == Append(form, [key |-> key, value |-> value])

RECURSIVE AddModules(_, _)
AddModules(form, mods) ==
  IF mods = <<>> THEN form
  ELSE AddModules(IF Head(mods) # "" THEN Add(form, "module", Head(mods)) ELSE form, Tail(mods))

\* The form RunE fills from the descriptor.
Form(d) ==
  AddModules(
    Add(Add(Add(Add(Add(Add(Add(Add(<<>>,
      "template", d.Template), "groupid", d.GroupId), "artifactid", d.ArtifactId),
      "version", d.Version), "packagename", d.PackageName),
      "snowdropbom", d.SnowdropBomVersion),
      "springbootversion", d.SpringBootVersion), "outdir", d.OutDir),
    d.Modules)

\* form.Encode(): the keys sorted, the values of a key in the order added,
\* keys and values escaped; the query as its sequence of parameters.
RECURSIVE EncodeKeys(_, _)
EncodeKeys(form, keys) ==
  IF keys = <<>> THEN <<>>
  ELSE LET mine == SelectSeq(form, LAMBDA kv : kv.key = Head(keys))
       IN [i \in DOMAIN mine |->
             [key |-> QueryEscape(mine[i].key), value |-> QueryEscape(mine[i].value)]]
          \o EncodeKeys(form, Tail(keys))

\* The keys of the form, each once (the map holds one slice per key).
RECURSIVE KeysOf(_, _)
KeysOf(form, seen) ==
  IF form = <<>> THEN seen
  ELSE KeysOf(Tail(form),
              IF Head(form).key \in Range(seen) THEN seen ELSE Append(seen, Head(form).key))

Encode(form) == EncodeKeys(form, SortStrings(KeysOf(form, <<>>)))

\* ------------------------------------------------------------ zip archives

\* A zip entry: its name as path components, whether it is a directory, its
\* bytes and its recorded mode.
DirEntry(name) == [Name |-> name, IsDir |-> TRUE, Content |-> Bytes(""), Mode |-> ModePerm]
FileEntry(name, text, mode) ==
  [Name |-> name, IsDir |-> FALSE, Content |-> Bytes(text), Mode |-> mode]

\* The archive of a generated project: one directory and one file in it.
ProjectEntries == <<DirEntry(<<"d">>), FileEntry(<<"d", "pom">>, "pom", Mode0644)>>

\* The entries an archive is made of in the extraction specification.
Entries ==
  {DirEntry(<<"d">>), FileEntry(<<"d", "pom">>, "pom", Mode0644),
   FileEntry(<<"f">>, "one", Mode0644), FileEntry(<<"f">>, "two", Mode0664),
   FileEntry(<<"d">>, "file", Mode0644), FileEntry(<<"..", "x">>, "out", Mode0644)}

Archives == UNION {[1..n -> Entries] : n \in 0..MaxEntries}

\* ------------------------------------------------------- what the user does

\* What survey.AskOne can come back with.  A failure that is no interrupt is
\* drawn at most MaxPromptErrors times in a run.
Failures(zero) ==
  {[err |-> InterruptErr, value |-> zero]}
    \cup (IF nPromptErrs < MaxPromptErrors THEN {[err |-> OtherErr, value |-> zero]} ELSE {})

ConfirmAnswers == {[err |-> NilErr, value |-> b] : b \in BOOLEAN} \cup Failures(FALSE)

\* survey refuses a choice prompt without options before it shows anything.
SelectAnswers(options) ==
  IF options = <<>> THEN {[err |-> OtherErr, value |-> ""]}
  ELSE {[err |-> NilErr, value |-> o] : o \in Range(options)} \cup Failures("")

RECURSIVE Picked(_, _, _)
Picked(options, chosen, i) ==
  IF i > Len(options) THEN <<>>
  ELSE (IF i \in chosen THEN <<options[i]>> ELSE <<>>) \o Picked(options, chosen, i + 1)

\* survey.Required: at least one option is ticked.
MultiSelectAnswers(options) ==
  IF options = <<>> THEN {[err |-> OtherErr, value |-> <<>>]}
  ELSE {[err |-> NilErr, value |-> Picked(options, chosen, 1)] :
          chosen \in SUBSET (DOMAIN options) \ {{}}}
       \cup Failures(<<>>)

\* A free-text prompt: the user types something, or submits nothing and gets
\* the default; survey.Required asks again while the result is empty.
AskAnswers(defaultValue, typed) ==
  {[err |-> NilErr, value |-> v] : v \in ({defaultValue} \cup typed) \ {""}}
    \cup Failures("")

\* -------------------------------------------------------------- the command

Init ==
  /\ pc = "config"
  /\ flags \in {Flags(S, url) : S \in FlagSets, url \in UrlServices}
  /\ p = flags
  /\ c = ConfigEmpty
  /\ modules = <<>>
  /\ prompts = <<>>
  /\ lastErr = NilErr
  /\ nPromptErrs = 0
  /\ stdout = <<>>
  /\ logged = <<>>
  /\ requests = <<>>
  /\ responses = <<>>
  /\ body = Bytes("")
  /\ fs = FsFresh
  /\ umask = Umask022
  /\ served = {ZipBytes(ProjectEntries), Bytes("<html>error</html>")}
  /\ failed = ""
  /\ err = NoError
  /\ exitCode = Running

\* A call of getYamlFrom: the request, what is logged, and the end of the
\* process when the outcome is fatal.
Fetched(endpoint, resp, got, next) ==
  /\ requests' =
       IF ValidURL(p.UrlService)
         THEN Append(requests, Request(p.UrlService, endpoint, <<>>)) ELSE requests
  /\ responses' =
       IF ValidURL(p.UrlService)
         THEN Append(responses, [endpoint |-> endpoint, transport |-> resp.transport,
                                 marker |-> resp.body.marker, parses |-> resp.body.parses])
         ELSE responses
  /\ logged' = logged \o got.logged
  /\ IF got.ended
       THEN pc' = "exited" /\ exitCode' = got.code /\ failed' = endpoint
       ELSE pc' = next /\ exitCode' = exitCode /\ failed' = failed

\* c := getGeneratorServiceConfig(p.UrlService)
FetchConfig ==
  /\ pc = "config"
  /\ \E resp \in Responses(ConfigFull, ConfigEmpty) :
       LET got == getGeneratorServiceConfig(p.UrlService, resp)
       IN /\ Fetched("config", resp, got, "selectVersion")
          /\ c' = IF got.ended THEN c ELSE got.result
  /\ UNCHANGED <<flags, p, modules, prompts, lastErr, nPromptErrs, stdout, body, fs,
                 umask, served, err>>

\* A call of a prompt function: the prompt is shown, HandleError ends the
\* process or reports, and otherwise the assignment is made and the run goes on.
Prompted(r, answer, assigned, next) ==
  /\ prompts' = Append(prompts, r.shown)
  /\ lastErr' = answer.err
  /\ nPromptErrs' = IF answer.err = OtherErr THEN nPromptErrs + 1 ELSE nPromptErrs
  /\ stdout' = stdout \o r.handled.out
  /\ IF r.handled.exit
       THEN pc' = "exited" /\ exitCode' = 1 /\ p' = p
       ELSE pc' = next /\ exitCode' = exitCode /\ p' = assigned
  /\ UNCHANGED <<flags, c, modules, logged, requests, responses, body, fs, umask,
                 served, failed, err>>

\* p.SpringBootVersion = Select(...); p.SnowdropBomVersion = bom.Snowdrop
SelectVersion ==
  /\ pc = "selectVersion"
  /\ LET bm == GetBOMMap(c)
     IN \E options \in GetSpringBootVersions(bm.versions) :
          \E answer \in SelectAnswers(options) :
            LET r == Select("Spring Boot version", options, bm.defaultVersion, answer)
                bom == BomOf(bm.versions, r.response)
            IN Prompted(r, answer,
                        [p EXCEPT !.SpringBootVersion = r.response,
                                  !.SnowdropBomVersion = bom.Snowdrop],
                        IF Len(bom.Supported) > 0 THEN "proceedSupported"
                                                  ELSE "proceedTemplate")

\* if len(bom.Supported) > 0 && Proceed("Use supported version")
ProceedSupported ==
  /\ pc = "proceedSupported"
  /\ \E answer \in ConfirmAnswers :
       LET r == Proceed("Use supported version", answer)
       IN Prompted(r, answer,
                   IF r.response
                     THEN [p EXCEPT !.SnowdropBomVersion =
                                      GetSupportedVersionFor(c, p.SpringBootVersion)]
                     ELSE p,
                   "proceedTemplate")

\* if Proceed("Create from template")
ProceedTemplate ==
  /\ pc = "proceedTemplate"
  /\ \E answer \in ConfirmAnswers :
       LET r == Proceed("Create from template", answer)
       IN Prompted(r, answer, p, IF r.response THEN "selectTemplate" ELSE "fetchModules")

\* p.Template = Select("Available templates", c.GetTemplateNames())
SelectTemplate ==
  /\ pc = "selectTemplate"
  /\ LET options == GetTemplateNames(c)
     IN \E answer \in SelectAnswers(options) :
          LET r == Select("Available templates", options, "", answer)
          IN Prompted(r, answer, [p EXCEPT !.Template = r.response], "askGroupId")

\* getCompatibleModuleNameFor(p)
FetchModules ==
  /\ pc = "fetchModules"
  /\ \E resp \in Responses(ModulesFull, <<>>) :
       LET got == getCompatibleModuleNameFor(p.UrlService, resp)
       IN /\ Fetched("modules/" \o p.SpringBootVersion, resp, got, "multiSelect")
          /\ modules' = IF got.ended THEN modules ELSE got.result
  /\ UNCHANGED <<flags, p, c, prompts, lastErr, nPromptErrs, stdout, body, fs, umask,
                 served, err>>

\* p.Modules = MultiSelect("Select modules", ...)
SelectModules ==
  /\ pc = "multiSelect"
  /\ \E answer \in MultiSelectAnswers(modules) :
       LET r == MultiSelect("Select modules", modules, answer)
       IN Prompted(r, answer, [p EXCEPT !.Modules = r.response], "askGroupId")

AskGroupId ==
  /\ pc = "askGroupId"
  /\ \E answer \in AskAnswers("me.snowdrop", {}) :
       LET r == Ask("Group Id", "me.snowdrop", answer)
       IN Prompted(r, answer, [p EXCEPT !.GroupId = r.response], "askArtifactId")

AskArtifactId ==
  /\ pc = "askArtifactId"
  /\ \E answer \in AskAnswers("myproject", {}) :
       LET r == Ask("Artifact Id", "myproject", answer)
       IN Prompted(r, answer, [p EXCEPT !.ArtifactId = r.response], "askVersion")

AskVersion ==
  /\ pc = "askVersion"
  /\ \E answer \in AskAnswers("1.0.0-SNAPSHOT", {}) :
       LET r == Ask("Version", "1.0.0-SNAPSHOT", answer)
       IN Prompted(r, answer, [p EXCEPT !.Version = r.response], "askPackageName")

AskPackageName ==
  /\ pc = "askPackageName"
  /\ LET defaultValue == p.GroupId \o "." \o p.ArtifactId
     IN \E answer \in AskAnswers(defaultValue, {}) :
          LET r == Ask("Package name", defaultValue, answer)
          IN Prompted(r, answer, [p EXCEPT !.PackageName = r.response], "askOutDir")

AskOutDir ==
  /\ pc = "askOutDir"
  /\ \E answer \in AskAnswers("", {"my project"}) :
       LET r == Ask("Project location", "", answer)
       IN Prompted(r, answer, [p EXCEPT !.OutDir = r.response], "request")

\* ---------------------------------------------- archive fetch and materialize

CauseText(cause) ==
  (IF cause.op = "" THEN "" ELSE cause.op \o " " \o cause.path \o ": ") \o cause.msg

\* err.Error()
ErrorText(e) ==
  IF e.context = "" THEN CauseText(e.cause)
  ELSE e.context \o " " \o e.path \o " due to " \o CauseText(e.cause)

\* main after createCmd.Execute(): the error text is written when there is an
\* error, and main returns, which ends the process with status 0.
main(e) == [out |-> IF e # NoError THEN <<ErrorText(e)>> ELSE <<>>, code |-> 0]

\* RunE returns e, after the archive step `step` failed ("" when none did).
Returned(e, step) ==
  /\ err' = e
  /\ failed' = step
  /\ stdout' = stdout \o main(e).out
  /\ exitCode' = main(e).code
  /\ pc' = "exited"

Dir == Join(currentDir, PathOf(p.OutDir))

ZipFile == ZipFileOf(Dir)

\* The form is encoded, the request built and client.Do called.
DoRequest ==
  /\ pc = "request"
  /\ IF ~ValidURL(p.UrlService)
       THEN /\ Returned(Bare(Cause("parse", p.UrlService, "missing protocol scheme")), "get")
            /\ UNCHANGED requests
       ELSE /\ requests' = Append(requests, Request(p.UrlService, "app", Encode(Form(p))))
            /\ \E ok \in BOOLEAN :
                 IF ok
                   THEN pc' = "readBody" /\ UNCHANGED <<err, failed, stdout, exitCode>>
                   ELSE Returned(Bare(Cause("Get", p.UrlService \o "/app", "connection refused")),
                                 "get")
  /\ UNCHANGED <<flags, p, c, modules, prompts, lastErr, nPromptErrs, logged, responses,
                 body, fs, umask, served>>

\* body, err := ioutil.ReadAll(res.Body)
ReadBody ==
  /\ pc = "readBody"
  /\ \/ \E b \in served :
          /\ body' = b
          /\ pc' = "writeZip"
          /\ UNCHANGED <<err, failed, stdout, exitCode>>
     \/ /\ Returned(Bare(Cause("", "", "unexpected EOF")), "get")
        /\ UNCHANGED body
  /\ UNCHANGED <<flags, p, c, modules, prompts, lastErr, nPromptErrs, logged, requests,
                 responses, fs, umask, served>>

\* err = ioutil.WriteFile(zipFile, body, 0644)
WriteZip ==
  /\ pc = "writeZip"
  /\ \E ok \in BOOLEAN :
       LET wrote == IF ok THEN WriteFile(fs, ZipFile, body, umask)
                    ELSE [fs |-> fs, err |-> Cause("open", PathText(ZipFile), "permission denied")]
       IN /\ fs' = wrote.fs
          /\ IF wrote.err # NoCause
               THEN Returned(Errorf("failed to download file", PathText(ZipFile), wrote.err), "write")
               ELSE pc' = "unzip" /\ UNCHANGED <<err, failed, stdout, exitCode>>
  /\ UNCHANGED <<flags, p, c, modules, prompts, lastErr, nPromptErrs, logged, requests,
                 responses, body, umask, served>>

\* err = Unzip(zipFile, dir)
DoUnzip ==
  /\ pc = "unzip"
  /\ \E failAt \in 0..Len(body.entries) :
       LET unzipped == Unzip(fs, ZipFile, Dir, umask, failAt)
       IN /\ fs' = unzipped.fs
          /\ IF unzipped.err # NoCause
               THEN Returned(Errorf("failed to unzip new project file", PathText(ZipFile), unzipped.err),
                             "unzip")
               ELSE pc' = "remove" /\ UNCHANGED <<err, failed, stdout, exitCode>>
  /\ UNCHANGED <<flags, p, c, modules, prompts, lastErr, nPromptErrs, logged, requests,
                 responses, body, umask, served>>

\* err = os.Remove(zipFile); return nil
RemoveZip ==
  /\ pc = "remove"
  /\ \E ok \in BOOLEAN :
       LET removed == IF ok THEN Remove(fs, ZipFile)
                      ELSE [fs |-> fs, err |-> Cause("remove", PathText(ZipFile), "permission denied")]
       IN /\ fs' = removed.fs
          /\ IF removed.err # NoCause
               THEN Returned(Bare(removed.err), "remove")
               ELSE Returned(NoError, "")
  /\ UNCHANGED <<flags, p, c, modules, prompts, lastErr, nPromptErrs, logged, requests,
                 responses, body, umask, served>>

Next ==
  \/ FetchConfig
  \/ SelectVersion
  \/ ProceedSupported
  \/ ProceedTemplate
  \/ SelectTemplate
  \/ FetchModules
  \/ SelectModules
  \/ AskGroupId
  \/ AskArtifactId
  \/ AskVersion
  \/ AskPackageName
  \/ AskOutDir
  \/ DoRequest
  \/ ReadBody
  \/ WriteZip
  \/ DoUnzip
  \/ RemoveZip

Spec == Init /\ [][Next]_vars

\* ------------------------------------------- the extraction, on any archive

\* The run that answers every question (version 2.2, from the template
\* "simple", the defaults, the directory "my project") as it stands before the
\* archive request; the generator may answer with any archive of Entries, the
\* directory may be left from an earlier run, and the umask may be 0 or 022.
AnsweredDescriptor ==
  [Flags({}, ServiceEndpoint) EXCEPT
     !.SpringBootVersion = "2.2", !.SnowdropBomVersion = "z.w", !.Template = "simple",
     !.GroupId = "me.snowdrop", !.ArtifactId = "myproject", !.Version = "1.0.0-SNAPSHOT",
     !.PackageName = "me.snowdrop.myproject", !.OutDir = "my project"]

AnsweredPrompts ==
  <<Shown("select", "Spring Boot version", <<"2.1", "2.2">>, "2.1"),
    Shown("confirm", "Create from template", <<>>, ""),
    Shown("select", "Available templates", <<"simple", "rest">>, ""),
    Shown("input", "Group Id", <<>>, "me.snowdrop"),
    Shown("input", "Artifact Id", <<>>, "myproject"),
    Shown("input", "Version", <<>>, "1.0.0-SNAPSHOT"),
    Shown("input", "Package name", <<>>, "me.snowdrop.myproject"),
    Shown("input", "Project location", <<>>, "")>>

InitArchive ==
  /\ pc = "request"
  /\ flags = Flags({}, ServiceEndpoint)
  /\ p = AnsweredDescriptor
  /\ c = ConfigFull
  /\ modules = <<>>
  /\ prompts = AnsweredPrompts
  /\ lastErr = NilErr
  /\ nPromptErrs = 0
  /\ stdout = <<>>
  /\ logged = <<>>
  /\ requests = <<Request(ServiceEndpoint, "config", <<>>)>>
  /\ responses = <<[endpoint |-> "config", transport |-> "ok", marker |-> FALSE,
                    parses |-> TRUE]>>
  /\ body = Bytes("")
  /\ fs \in {FsFresh, FsOld}
  /\ umask \in Umasks
  /\ served = {ZipBytes(a) : a \in Archives} \cup {Bytes("<html>error</html>")}
  /\ failed = ""
  /\ err = NoError
  /\ exitCode = Running

NextArchive ==
  \/ DoRequest
  \/ ReadBody
  \/ WriteZip
  \/ DoUnzip
  \/ RemoveZip

SpecArchive == InitArchive /\ [][NextArchive]_vars

\* The state InitArchive starts from is a state of a full run.
AnsweredReached ==
  /\ pc = "request" /\ p = AnsweredDescriptor /\ prompts = AnsweredPrompts
  /\ flags = Flags({}, ServiceEndpoint) /\ c = ConfigFull /\ requests = <<Request(ServiceEndpoint, "config", <<>>)>>
  /\ stdout = <<>> /\ logged = <<>> /\ modules = <<>> /\ nPromptErrs = 0 /\ lastErr = NilErr

\* ------------------------------------------------------------ the ui package

\* pkg/ui: the same four prompt functions, with sort.Strings(options) ahead of
\* the two choice prompts.
uiSelect(message, options, defaultValue, answer) ==
  askOne(Shown("select", message, SortStrings(options), defaultValue), answer)

uiMultiSelect(message, options, answer) ==
  [shown |-> Shown("multiselect", message, SortStrings(options), ""),
   response |-> AskOneResponse(answer, <<>>), handled |-> HandleError(answer.err)]

\* The option lists a client passes: every listing of a non-empty set of names.
OptionLists == UNION {Orderings(S) : S \in SUBSET {"a", "b", "c"} \ {{}}}

InitUi ==
  /\ pc = "ui"
  /\ flags = Flags({}, ServiceEndpoint)
  /\ p = flags
  /\ c = ConfigEmpty
  /\ modules = <<>>
  /\ prompts = <<>>
  /\ lastErr = NilErr
  /\ nPromptErrs = 0
  /\ stdout = <<>>
  /\ logged = <<>>
  /\ requests = <<>>
  /\ responses = <<>>
  /\ body = Bytes("")
  /\ fs = FsFresh
  /\ umask = Umask022
  /\ served = {}
  /\ failed = ""
  /\ err = NoError
  /\ exitCode = Running

\* A client calls a prompt function of the package and drops the response.
UiCalled(r, answer) ==
  /\ pc = "ui"
  /\ Len(prompts) < MaxCalls
  /\ Prompted(r, answer, p, "ui")

UiProceed == \E answer \in ConfirmAnswers : UiCalled(Proceed("Proceed", answer), answer)

UiSelect ==
  \E options \in OptionLists : \E answer \in SelectAnswers(options) :
    UiCalled(uiSelect("Select", options, "", answer), answer)

UiMultiSelect ==
  \E options \in OptionLists : \E answer \in MultiSelectAnswers(options) :
    UiCalled(uiMultiSelect("MultiSelect", options, answer), answer)

UiAsk == \E answer \in AskAnswers("", {"text"}) : UiCalled(Ask("Ask", "", answer), answer)

NextUi ==
  \/ UiProceed
  \/ UiSelect
  \/ UiMultiSelect
  \/ UiAsk

SpecUi == InitUi /\ [][NextUi]_vars

\* The choice prompts of the ui package present their options sorted.
UiOptionsSorted ==
  \A i \in DOMAIN prompts :
    \A j, k \in DOMAIN prompts[i].options :
      j < k => ~StrLess(prompts[i].options[k], prompts[i].options[j])

\* ------------------------------------------------------------------ claims

ArchiveSteps == {"get", "write", "unzip", "remove"}

\* The archive request has been built and handed to client.Do.
AppRequested == \E i \in DOMAIN requests : requests[i].endpoint = "app"

AppQuery == requests[Len(requests)].query

\* The values of the parameters of a query that have the given key, in order.
ParamValues(query, key) ==
  LET mine == SelectSeq(query, LAMBDA kv : kv.key = key)
  IN [i \in DOMAIN mine |-> mine[i].value]

\* The prompt that asks for the field a flag sets.
PromptOf(f) ==
  CASE f = "Template" -> "Available templates"
    [] f = "Modules" -> "Select modules"
    [] f = "GroupId" -> "Group Id"
    [] f = "ArtifactId" -> "Artifact Id"
    [] f = "Version" -> "Version"
    [] f = "PackageName" -> "Package name"
    [] f = "SpringBootVersion" -> "Spring Boot version"
    [] f = "SnowdropBomVersion" -> "Use supported version"

Supplied(f) == flags[f] # Flags({}, ServiceEndpoint)[f]

\* C1: a field whose value a flag supplies is not asked for and reaches the
\* archive request with the flag's value; with every flag supplied the run
\* reaches the archive request without a prompt.
C1_FlagsOverridePrompts ==
  /\ \A f \in FlagNames :
       Supplied(f) =>
         /\ \A i \in DOMAIN prompts : prompts[i].message # PromptOf(f)
         /\ AppRequested => p[f] = flags[f]
  /\ (AppRequested /\ \A f \in FlagNames : Supplied(f)) => prompts = <<>>

\* The whole sequence ran: the archive was requested, extracted and the zip
\* deleted.
Completed == AppRequested /\ failed = "" /\ err = NoError

\* C2: a completed run exits with status 0; a run whose config fetch or
\* archive step failed has written the error text and exits with a status
\* other than 0.
C2_ExitStatus ==
  pc = "exited" =>
    /\ Completed => exitCode = 0
    /\ failed = "config" => exitCode # 0 /\ logged # <<>>
    /\ failed \in ArchiveSteps => exitCode # 0 /\ stdout # <<>>

\* C3: an interrupt during a prompt ends the process at once with status 1,
\* and nothing happens after it: no prompt, no request, no file written.
C3_InterruptTerminates ==
  /\ [](lastErr = InterruptErr => pc = "exited" /\ exitCode = 1)
  /\ [][lastErr = InterruptErr => UNCHANGED <<prompts, requests, fs>>]_vars

C3_Witness ==
  /\ lastErr = InterruptErr
  /\ pc = "exited"
  /\ Len(prompts) > 1
  /\ prompts[Len(prompts)].kind = "multiselect"

\* C4: when the archive request is built exactly one of template and module
\* selection is populated.
C4_TemplateXorModules ==
  AppRequested =>
    \/ p.Template # "" /\ p.Modules = <<>>
    \/ p.Template = "" /\ p.Modules # <<>>

\* An entry of the archive is in place under the output directory.
Extracted(e) ==
  LET path == Join(Dir, e.Name)
  IN /\ IsPrefix(Dir, path) /\ path # Dir
     /\ path \in DOMAIN fs
     /\ IF e.IsDir THEN fs[path].kind = "dir"
        ELSE fs[path].kind = "file" /\ fs[path].content = e.Content
             /\ fs[path].mode = e.Mode

\* C5: after a successful fetch-and-materialize every entry of the archive is
\* extracted under the output directory (directories as directories, files
\* with their content and recorded mode) and the temporary zip is gone.
C5_ExtractedAll ==
  (pc = "exited" /\ Completed) =>
    /\ ZipFile \notin DOMAIN fs
    /\ \A i \in DOMAIN body.entries : Extracted(body.entries[i])

\* C6: the query has one module parameter per selected module, in selection
\* order, and a parameter only for a populated field: none for an empty
\* template.
C6_QueryParameters ==
  AppRequested =>
    /\ ParamValues(AppQuery, "module") = p.Modules
    /\ \A i \in DOMAIN AppQuery : AppQuery[i].value # ""
    /\ p.Template = "" => ParamValues(AppQuery, "template") = <<>>

\* The config endpoint answered with the unavailability marker or with a body
\* that does not parse.
ConfigRefused(r) ==
  r.endpoint = "config" /\ r.transport # "do" /\ (r.marker \/ ~r.parses)

\* C7: once the config endpoint has answered with the unavailability marker or
\* with a body that does not parse, the process has ended, no prompt was shown
\* and no archive request was issued.
C7_ConfigFailureIsFatal ==
  \A i \in DOMAIN responses :
    ConfigRefused(responses[i]) =>
      pc = "exited" /\ exitCode = 1 /\ prompts = <<>> /\ ~AppRequested

C7_Witness ==
  /\ pc = "exited"
  /\ responses # <<>>
  /\ responses[1].endpoint = "config" /\ responses[1].transport = "ok"
  /\ responses[1].marker /\ responses[1].parses

\* What the run does at each prompt when the prompt returns its zero value:
\* the step it goes on with and the descriptor it leaves.
AfterZero(step) ==
  CASE step = "selectVersion" ->
         [next |-> "proceedTemplate",
          p |-> [p EXCEPT !.SpringBootVersion = "", !.SnowdropBomVersion = ""]]
    [] step = "proceedSupported" -> [next |-> "proceedTemplate", p |-> p]
    [] step = "proceedTemplate" -> [next |-> "fetchModules", p |-> p]
    [] step = "selectTemplate" -> [next |-> "askGroupId", p |-> [p EXCEPT !.Template = ""]]
    [] step = "multiSelect" -> [next |-> "askGroupId", p |-> [p EXCEPT !.Modules = <<>>]]
    [] step = "askGroupId" -> [next |-> "askArtifactId", p |-> [p EXCEPT !.GroupId = ""]]
    [] step = "askArtifactId" -> [next |-> "askVersion", p |-> [p EXCEPT !.ArtifactId = ""]]
    [] step = "askVersion" -> [next |-> "askPackageName", p |-> [p EXCEPT !.Version = ""]]
    [] step = "askPackageName" -> [next |-> "askOutDir", p |-> [p EXCEPT !.PackageName = ""]]
    [] step = "askOutDir" -> [next |-> "request", p |-> [p EXCEPT !.OutDir = ""]]

\* C8: a prompt that fails without an interrupt does not end the run: the
\* failure is written to standard output, the prompt function returns the zero
\* value, and the run goes on with the next step of the sequence.
C8_PromptFailureTolerated ==
  [][(prompts' # prompts /\ lastErr' = OtherErr) =>
       /\ exitCode' = Running
       /\ pc' = AfterZero(pc).next
       /\ p' = AfterZero(pc).p
       /\ stdout' = Append(stdout, "Encountered an error processing prompt")]_vars

\* A run with a failed multi-select and a failed free-text prompt
\* behind it has issued the archive request.
C8_Witness ==
  /\ AppRequested
  /\ nPromptErrs >= 2
  /\ lastErr = OtherErr
  /\ \E i \in DOMAIN prompts : prompts[i].kind = "multiselect"
  /\ p.Modules = <<>> /\ p.OutDir = ""

\* C9: every select and multi-select prompt presents its options sorted.
C9_OptionsSorted ==
  \A i \in DOMAIN prompts :
    (prompts[i].kind \in {"select", "multiselect"} /\ prompts[i].options # <<>>) =>
      prompts[i].options = SortStrings(prompts[i].options)

\* C10: a failed archive step ends the sequence there and RunE returns an error
\* wrapped with the step and the path.
C10_WrappedStepError ==
  (pc = "exited" /\ failed \in ArchiveSteps) =>
    /\ err.context # "" /\ err.path # ""
    /\ failed = "get" => fs = FsFresh
    /\ failed = "write" => DOMAIN fs \ {ZipFile} = DOMAIN FsFresh
    /\ failed = "unzip" => ZipFile \in DOMAIN fs

====
